---- MODULE Spec2Model ----
(***************************************************************************)
(* Model of scripts/setup_maa_core.py: the release resolver, the asset     *)
(* selector, the size-checked download cache and the archive deployer.     *)
(*                                                                         *)
(* Representation.  A file name is a sequence of tokens, e.g.              *)
(*   <<"libbar", ".so">>  or  <<"MAA-v1-", "android-arm64", ".tar.gz">>,   *)
(* so that `keyword in name`, str.endswith and Path.suffix are computed    *)
(* on the name instead of being assumed.  A path is a sequence of names    *)
(* (Path.parts).  A directory tree is a function from the paths of its     *)
(* regular files to [data, from]: data is the byte content (a sequence of  *)
(* blocks), from is the history of who wrote it (PRE for a file that was   *)
(* there before the tool ran, else the archive's file name).               *)
(* Archives in the cache are well-formed and no I/O operation raises.      *)
(***************************************************************************)
EXTENDS Integers, Sequences, FiniteSets, TLC

\* ---------------------------------------------------------------- bounds
\* number of consecutive invocations of main() explored
MaxRuns == 2
\* longest asset list a release answers with
MaxAssets == 2

\* ---------------------------------------------------------------- config
ABI_MAP ==
  << [keyword |-> "android-arm64", abi |-> "arm64-v8a"],
     [keyword |-> "android-x64", abi |-> "x86_64"] >>

EXCLUDE_SO == { <<"libc++_shared", ".so">> }

IGNORE_EXTENSIONS == { ".h" }

Abis == { ABI_MAP[i].abi : i \in DOMAIN ABI_MAP }

KeywordOf(abi) == ABI_MAP[CHOOSE i \in DOMAIN ABI_MAP : ABI_MAP[i].abi = abi].keyword

\* ---------------------------------------------------------------- names
\* the tokens that are file extensions (they start with a dot)
ExtTokens == { ".so", ".h", ".json", ".txt", ".tar.gz", ".zip" }

\* `keyword in name`
Contains(name, keyword) == \E i \in DOMAIN name : name[i] = keyword

\* name.endswith(suffix)
EndsWith(name, suffix) == Len(name) > 0 /\ name[Len(name)] = suffix

\* Path(name).suffix: the last extension, none when the name is only a
\* leading-dot name such as ".so"
Suffix(name) ==
  IF Len(name) >= 2 /\ name[Len(name)] \in ExtTokens THEN name[Len(name)] ELSE ""

\* the tokens of archive file names in the order of their first characters
TokenOrder ==
  << "-", ".tar.gz", ".zip", "MAA-v1-", "MAA-v2-",
     "android-arm64", "android-x64", "linux-x64" >>

TokRank(t) == CHOOSE i \in DOMAIN TokenOrder : TokenOrder[i] = t

\* string comparison of two file names
RECURSIVE NameLess(_, _)
NameLess(a, b) ==
  IF a = << >> THEN b # << >>
  ELSE IF b = << >> THEN FALSE
  ELSE IF Head(a) = Head(b) THEN NameLess(Tail(a), Tail(b))
  ELSE TokRank(Head(a)) < TokRank(Head(b))

NameLeq(a, b) == a = b \/ NameLess(a, b)

RESOURCE == << "resource" >>
LIBJNIDISPATCH == << "libjnidispatch", ".so" >>
PRE == << "pre" >>

\* ------------------------------------------------- the environment's data
ARM_V1 == << "MAA-v1-", "android-arm64", ".tar.gz" >>
ARM_V2 == << "MAA-v2-", "android-arm64", ".tar.gz" >>
X64_V1 == << "MAA-v1-", "android-x64", ".tar.gz" >>
ARM_ZIP == << "MAA-v1-", "android-arm64", ".zip" >>
LINUX_V1 == << "MAA-v1-", "linux-x64", ".tar.gz" >>
\* one archive for both architectures: its name holds both keywords
BOTH_V1 == << "MAA-v1-", "android-arm64", "-", "android-x64", ".tar.gz" >>

LIBFOO == << "libfoo" >>
CONFIG_JSON == << "config", ".json" >>
LIBBAR_SO == << "libbar", ".so" >>
LIBBAR_H == << "libbar", ".h" >>
TYPES_H == << "types", ".h" >>
LIBPLUG_SO == << "libplug", ".so" >>
LIBCXX_SO == << "libc++_shared", ".so" >>
LIBOLD_SO == << "libold", ".so" >>
NOTES_TXT == << "notes", ".txt" >>
A_JSON == << "a", ".json" >>
README == << "README" >>

File(path, block) == [path |-> path, isfile |-> TRUE, data |-> << block >>]
Dir(path) == [path |-> path, isfile |-> FALSE, data |-> << >>]

\* three archives: between them a directory member, a header, a header and a
\* library below "resource", a member named "resource", two members with the
\* same file name, an excluded library and "resource" twice in one path
TarV1 ==
  [ size |-> 1000,
    members |->
      << Dir(<< LIBFOO >>),
         File(<< LIBFOO, RESOURCE, CONFIG_JSON >>, "cfg1"),
         File(<< LIBFOO, LIBBAR_SO >>, "bar1"),
         File(<< LIBFOO, LIBBAR_H >>, "hdr"),
         File(<< LIBFOO, LIBPLUG_SO >>, "plug1") >> ]

TarV2 ==
  [ size |-> 1200,
    members |->
      << File(<< LIBFOO, RESOURCE, CONFIG_JSON >>, "cfg2"),
         File(<< LIBFOO, RESOURCE, << "plugins" >>, LIBPLUG_SO >>, "plug2"),
         File(<< LIBFOO, LIBCXX_SO >>, "cxx"),
         File(<< LIBFOO, LIBBAR_SO >>, "bar2"),
         File(<< LIBFOO, RESOURCE >>, "odd") >> ]

TarX ==
  [ size |-> 900,
    members |->
      << File(<< LIBFOO, LIBBAR_SO >>, "barx"),
         File(<< LIBFOO, << "x" >>, LIBBAR_SO >>, "barx2"),
         File(<< README >>, "txt"),
         File(<< RESOURCE, RESOURCE, A_JSON >>, "a"),
         File(<< RESOURCE, << "inc" >>, TYPES_H >>, "hdr2") >> ]

TarU ==
  [ size |-> 400,
    members |->
      << File(<< LIBFOO, LIBPLUG_SO >>, "plugu"),
         File(<< LIBFOO, RESOURCE, CONFIG_JSON >>, "cfgu") >> ]

\* a file of the cache is held as the name of its content
Stored(content) ==
  CASE content = "TarV1" -> TarV1
    [] content = "TarV2" -> TarV2
    [] content = "TarX" -> TarX
    [] content = "TarU" -> TarU

\* the bytes behind each browser_download_url
Remote(url) ==
  CASE url = "u-arm-v1" -> "TarV1"
    [] url = "u-arm-v2" -> "TarV2"
    [] url = "u-x64-v1" -> "TarX"
    [] url = "u-arm-zip" -> "TarV1"
    [] url = "u-linux" -> "TarX"
    [] url = "u-both" -> "TarU"

Asset(name, url) ==
  [name |-> name, browser_download_url |-> url, size |-> Stored(Remote(url)).size]

AssetUniverse ==
  { Asset(ARM_V1, "u-arm-v1"), Asset(ARM_V2, "u-arm-v2"),
    Asset(X64_V1, "u-x64-v1"), Asset(ARM_ZIP, "u-arm-zip"),
    Asset(LINUX_V1, "u-linux"), Asset(BOTH_V1, "u-both") }

\* the asset lists a release may answer with
Listings == UNION { [1..n -> AssetUniverse] : n \in 0..MaxAssets }

EmptyTree == [p \in {} |-> p]

PreFile(block) == [data |-> << block >>, from |-> PRE]

\* what the project may hold before the first run
InitCaches ==
  { EmptyTree,
    [n \in {ARM_V1, ARM_V2} |-> IF n = ARM_V1 THEN "TarX" ELSE "TarV2"] }

InitResTree ==
  [p \in { << CONFIG_JSON >>, << << "old" >>, A_JSON >> } |-> PreFile("stale")]

InitJniTree ==
  [a \in Abis |->
     IF a = "arm64-v8a"
     THEN [f \in {LIBOLD_SO, LIBJNIDISPATCH, LIBCXX_SO, NOTES_TXT} |->
             PreFile(IF f = LIBOLD_SO THEN "old" ELSE "third")]
     ELSE EmptyTree]

\* ---------------------------------------------------------------- state
VARIABLES
  cache,              \* .maa-cache: file name -> content
  resTree,            \* app/src/main/assets/MaaSync/MaaResource
  jniTree,            \* app/src/main/jniLibs: abi -> file name -> file
  args,               \* the parsed command line
  pc,                 \* position of main()
  assets,             \* the asset list the selector is applied to on its own
  android_assets,     \* find_android_assets' result, in insertion order
  dl,                 \* index of the download loop in android_assets
  queue,              \* the (tarball, abi) pairs the deploy loop still visits
  cur,                \* the pair extract_and_deploy is working on
  member,             \* index of the member loop in the open archive
  stats,              \* extract_and_deploy's counters
  resource_deployed,
  exitCode,           \* exit status of the run, -1 while none
  runs,               \* invocations so far
  apiResult,          \* history: "none", "error" or "ok"
  requests,           \* history: names downloaded in this run, in order
  deployed,           \* history: pairs deployed in this run, in order
  wrote,              \* history: destinations written in this run
  preRes, preJni,     \* history: the trees when this run started
  prevArgs            \* history: the command line of the previous run

vars ==
  << cache, resTree, jniTree, args, pc, assets, android_assets, dl, queue, cur,
     member, stats, resource_deployed, exitCode, runs, apiResult, requests,
     deployed, wrote, preRes, preJni, prevArgs >>

fsVars == << cache, resTree, jniTree >>
extractVars == << cur, member, stats >>
histVars == << apiResult, requests, deployed, wrote, preRes, preJni, prevArgs >>

NoArgs == [clean |-> FALSE, skip_download |-> FALSE, abi |-> "all"]
NoCur == [tarball |-> << >>, abi |-> "all"]
ZeroStats == [resource |-> 0, so |-> 0, skipped |-> 0]

Init ==
  /\ cache \in InitCaches
  /\ resTree = InitResTree
  /\ jniTree = InitJniTree
  /\ args = NoArgs
  /\ pc = "idle"
  /\ assets = << >>
  /\ android_assets = << >>
  /\ dl = 1
  /\ queue = << >>
  /\ cur = NoCur
  /\ member = 1
  /\ stats = ZeroStats
  /\ resource_deployed = FALSE
  /\ exitCode = -1
  /\ runs = 0
  /\ apiResult = "none"
  /\ requests = << >>
  /\ deployed = << >>
  /\ wrote = {}
  /\ preRes = resTree
  /\ preJni = jniTree
  /\ prevArgs = NoArgs

\* ------------------------------------------------------ pure functions
\* result[abi] = info on a dict that keeps insertion order
Put(result, info) ==
  IF \E i \in DOMAIN result : result[i].abi = info.abi
  THEN [i \in DOMAIN result |-> IF result[i].abi = info.abi THEN info ELSE result[i]]
  ELSE Append(result, info)

Info(abi, asset) ==
  [abi |-> abi, name |-> asset.name, url |-> asset.browser_download_url,
   size |-> asset.size]

\* the archive suffix test of find_android_assets
IsArchive(name) == EndsWith(name, ".tar.gz")

RECURSIVE ScanKeywords(_, _, _)
ScanKeywords(result, asset, k) ==
  IF k > Len(ABI_MAP) THEN result
  ELSE ScanKeywords(
         IF Contains(asset.name, ABI_MAP[k].keyword)
         THEN Put(result, Info(ABI_MAP[k].abi, asset))
         ELSE result,
         asset, k + 1)

RECURSIVE ScanAssets(_, _, _)
ScanAssets(result, list, i) ==
  IF i > Len(list) THEN result
  ELSE ScanAssets(
         IF ~IsArchive(list[i].name) THEN result
         ELSE ScanKeywords(result, list[i], 1),
         list, i + 1)

\* a selector in which the first match wins
RECURSIVE Reversed(_)
Reversed(list) ==
  IF list = << >> THEN << >> ELSE Append(Reversed(Tail(list)), Head(list))

find_first_match(list) == ScanAssets(<< >>, Reversed(list), 1)

find_android_assets(list) == ScanAssets(<< >>, list, 1)

\* target_abis
Target(a) == IF a.abi = "all" THEN Abis ELSE { a.abi }

\* a cache test that looks at the name only
CacheHitByName(dir, info) == info.name \in DOMAIN dir

\* the cache test of the download loop
CacheHit(dir, info) ==
  info.name \in DOMAIN dir /\ Stored(dir[info.name]).size = info.size

\* download_file: open(dest, "wb") and every chunk of the response
download_file(dir, info) ==
  [n \in DOMAIN dir \cup { info.name } |->
     IF n = info.name THEN Remote(info.url) ELSE dir[n]]

\* a clean of the resource tree that does not look at the flag
CleanAssetsAlways(a, tree) == EmptyTree

\* shutil.rmtree(assets_dir) when --clean
CleanAssets(a, tree) == IF a.clean THEN EmptyTree ELSE tree

\* the files the clean pre-step of extract_and_deploy keeps
Kept(f) == ~(Suffix(f) = ".so" /\ f # LIBJNIDISPATCH)

CleanJni(dir) == [f \in { g \in DOMAIN dir : Kept(g) } |-> dir[f]]

\* a library directory that is the same for every architecture
JniDirFixed(abi) == "arm64-v8a"

\* jnilib_dir = project_root / JNILIBS_DIR / abi
JniDir(abi) == abi

\* an end of main() that never reports the empty deploy
ExitStatusZero(any_deployed) == 0

\* the exit status after the deploy loop
ExitStatus(any_deployed) == IF any_deployed THEN 0 ELSE 1

\* a write that opens the destination for appending
append_bytes(tree, path, data, who) ==
  [p \in DOMAIN tree \cup { path } |->
     IF p = path
     THEN [data |-> (IF path \in DOMAIN tree THEN tree[path].data ELSE << >>) \o data,
           from |-> who]
     ELSE tree[p]]

\* dest.write_bytes(src.read())
write_bytes(tree, path, data, who) ==
  [p \in DOMAIN tree \cup { path } |->
     IF p = path THEN [data |-> data, from |-> who] ELSE tree[p]]

\* Path(member.name).name
NameOf(m) == m.path[Len(m.path)]

\* list(parts).index("resource")
ResIdx(parts) ==
  CHOOSE i \in DOMAIN parts :
    parts[i] = RESOURCE /\ \A j \in 1..(i - 1) : parts[j] # RESOURCE

\* the segments after the last "resource" instead of the first
RelPartsLast(parts) ==
  LET i == CHOOSE k \in DOMAIN parts :
             parts[k] = RESOURCE /\ \A j \in (k + 1)..Len(parts) : parts[j] # RESOURCE
  IN SubSeq(parts, i + 1, Len(parts))

\* parts[res_idx + 1:]
RelParts(parts) == SubSeq(parts, ResIdx(parts) + 1, Len(parts))

\* the routing of one archive member
Route(m) ==
  IF ~m.isfile THEN "notfile"
  ELSE IF Suffix(NameOf(m)) \in IGNORE_EXTENSIONS THEN "skipped"
  ELSE IF Contains(m.path, RESOURCE)
       THEN IF RelParts(m.path) = << >> THEN "dropped" ELSE "resource"
  ELSE IF EndsWith(NameOf(m), ".so")
       THEN IF NameOf(m) \in EXCLUDE_SO THEN "skipped" ELSE "so"
  ELSE "skipped"

\* cache_dir.glob("*.tar.gz")
Glob(dir) == { n \in DOMAIN dir : EndsWith(n, ".tar.gz") }

\* a sort in descending order
RECURSIVE SortedDescending(_)
SortedDescending(S) ==
  IF S = {} THEN << >>
  ELSE LET m == CHOOSE x \in S : \A y \in S : NameLeq(y, x)
       IN << m >> \o SortedDescending(S \ { m })

\* sorted(...)
RECURSIVE Sorted(_)
Sorted(S) ==
  IF S = {} THEN << >>
  ELSE LET m == CHOOSE x \in S : \A y \in S : NameLeq(x, y)
       IN << m >> \o Sorted(S \ { m })

\* an inner loop that does not test the keyword
PairsForAnyName(tarball, targets) ==
  LET sel == SelectSeq(ABI_MAP, LAMBDA e : e.abi \in targets)
  IN [i \in DOMAIN sel |-> [tarball |-> tarball, abi |-> sel[i].abi]]

\* the inner loop of the deploy phase for one tarball
PairsFor(tarball, targets) ==
  LET sel == SelectSeq(ABI_MAP,
                       LAMBDA e : Contains(tarball, e.keyword) /\ e.abi \in targets)
  IN [i \in DOMAIN sel |-> [tarball |-> tarball, abi |-> sel[i].abi]]

RECURSIVE Flatten(_, _)
Flatten(tarballs, targets) ==
  IF tarballs = << >> THEN << >>
  ELSE PairsFor(Head(tarballs), targets) \o Flatten(Tail(tarballs), targets)

\* the calls of extract_and_deploy the deploy loop makes, in order
DeployPairs(dir, targets) == Flatten(Sorted(Glob(dir)), targets)

\* ---------------------------------------------------------------- actions
\* main(): parse_args, the clean of the resource tree, target_abis
StartRun ==
  /\ pc \in { "idle", "done" }
  /\ runs < MaxRuns
  /\ \E clean \in BOOLEAN, skip \in BOOLEAN, abi \in Abis \cup { "all" } :
       LET a == [clean |-> clean, skip_download |-> skip, abi |-> abi]
       IN /\ args' = a
          /\ resTree' = CleanAssets(a, resTree)
          /\ pc' = IF skip THEN "deploy" ELSE "fetch"
  /\ runs' = runs + 1
  /\ prevArgs' = args
  /\ preRes' = resTree
  /\ preJni' = jniTree
  /\ assets' = << >>
  /\ android_assets' = << >>
  /\ dl' = 1
  /\ queue' = << >>
  /\ cur' = NoCur
  /\ member' = 1
  /\ stats' = ZeroStats
  /\ resource_deployed' = FALSE
  /\ exitCode' = -1
  /\ apiResult' = "none"
  /\ requests' = << >>
  /\ deployed' = << >>
  /\ wrote' = {}
  /\ UNCHANGED << cache, jniTree >>

\* get_release_assets: the request fails with an HTTPError, sys.exit(1)
GetReleaseFail ==
  /\ pc = "fetch"
  /\ apiResult' = "error"
  /\ exitCode' = 1
  /\ pc' = "done"
  /\ UNCHANGED << fsVars, args, assets, android_assets, dl, queue, extractVars,
                  resource_deployed, runs, requests, deployed, wrote, preRes,
                  preJni, prevArgs >>

\* get_release_assets answers with an asset list, find_android_assets selects
\* from it, and main() exits when nothing was selected
SelectAssets ==
  /\ pc = "fetch"
  /\ \E list \in Listings : android_assets' = find_android_assets(list)
  /\ apiResult' = "ok"
  /\ IF android_assets' = << >>
     THEN /\ exitCode' = 1
          /\ pc' = "done"
     ELSE /\ exitCode' = exitCode
          /\ pc' = "download"
  /\ dl' = 1
  /\ UNCHANGED << fsVars, args, assets, queue, extractVars, resource_deployed,
                  runs, requests, deployed, wrote, preRes, preJni, prevArgs >>

\* one iteration of the download loop
DownloadStep ==
  /\ pc = "download"
  /\ dl <= Len(android_assets)
  /\ LET info == android_assets[dl]
     IN IF info.abi \notin Target(args) \/ CacheHit(cache, info)
        THEN UNCHANGED << cache, requests >>
        ELSE /\ cache' = download_file(cache, info)
             /\ requests' = Append(requests, info.name)
  /\ dl' = dl + 1
  /\ pc' = IF dl = Len(android_assets) THEN "deploy" ELSE "download"
  /\ UNCHANGED << resTree, jniTree, args, assets, android_assets, queue,
                  extractVars, resource_deployed, exitCode, runs, apiResult,
                  deployed, wrote, preRes, preJni, prevArgs >>

\* the deploy phase starts: sorted(cache_dir.glob("*.tar.gz"))
BeginDeploy ==
  /\ pc = "deploy"
  /\ queue' = DeployPairs(cache, Target(args))
  /\ resource_deployed' = FALSE
  /\ pc' = "loop"
  /\ UNCHANGED << fsVars, args, assets, android_assets, dl, extractVars,
                  exitCode, runs, histVars >>

\* extract_and_deploy starts: the clean pre-step, mkdir, tarfile.open
OpenTarball ==
  /\ pc = "loop"
  /\ queue # << >>
  /\ cur' = Head(queue)
  /\ jniTree' =
       IF args.clean
       THEN [jniTree EXCEPT ![JniDir(Head(queue).abi)] = CleanJni(@)]
       ELSE jniTree
  /\ stats' = ZeroStats
  /\ member' = 1
  /\ deployed' = Append(deployed, Head(queue))
  /\ pc' = "extract"
  /\ UNCHANGED << cache, resTree, args, assets, android_assets, dl, queue,
                  resource_deployed, exitCode, runs, apiResult, requests, wrote,
                  preRes, preJni, prevArgs >>

\* one iteration of the member loop of extract_and_deploy
ExtractMember ==
  /\ pc = "extract"
  /\ member <= Len(Stored(cache[cur.tarball]).members)
  /\ LET m == Stored(cache[cur.tarball]).members[member]
         r == Route(m)
     IN /\ resTree' =
             IF r = "resource"
             THEN write_bytes(resTree, RelParts(m.path), m.data, cur.tarball)
             ELSE resTree
        /\ jniTree' =
             IF r = "so"
             THEN [jniTree EXCEPT
                     ![JniDir(cur.abi)] =
                       write_bytes(@, NameOf(m), m.data, cur.tarball)]
             ELSE jniTree
        /\ stats' =
             CASE r = "resource" -> [stats EXCEPT !.resource = @ + 1]
               [] r = "so" -> [stats EXCEPT !.so = @ + 1]
               [] r = "skipped" -> [stats EXCEPT !.skipped = @ + 1]
               [] OTHER -> stats
        /\ wrote' =
             CASE r = "resource" ->
                    wrote \cup { [tree |-> "resource", path |-> RelParts(m.path),
                                  tarball |-> cur.tarball] }
               [] r = "so" ->
                    wrote \cup { [tree |-> JniDir(cur.abi), path |-> << NameOf(m) >>,
                                  tarball |-> cur.tarball] }
               [] OTHER -> wrote
  /\ member' = member + 1
  /\ UNCHANGED << cache, args, pc, assets, android_assets, dl, queue, cur,
                  resource_deployed, exitCode, runs, apiResult, requests,
                  deployed, preRes, preJni, prevArgs >>

\* extract_and_deploy returns; resource_deployed = True
CloseTarball ==
  /\ pc = "extract"
  /\ member > Len(Stored(cache[cur.tarball]).members)
  /\ resource_deployed' = TRUE
  /\ queue' = Tail(queue)
  /\ pc' = "loop"
  /\ UNCHANGED << fsVars, args, assets, android_assets, dl, extractVars,
                  exitCode, runs, histVars >>

\* after the deploy loop: sys.exit(1) when nothing was deployed, else the
\* summary and the normal end of main()
Finish ==
  /\ pc = "loop"
  /\ queue = << >>
  /\ exitCode' = ExitStatus(resource_deployed)
  /\ pc' = "done"
  /\ UNCHANGED << fsVars, args, assets, android_assets, dl, queue, extractVars,
                  resource_deployed, runs, histVars >>

Next ==
  \/ StartRun
  \/ GetReleaseFail
  \/ SelectAssets
  \/ DownloadStep
  \/ BeginDeploy
  \/ OpenTarball
  \/ ExtractMember
  \/ CloseTarball
  \/ Finish

Spec == Init /\ [][Next]_vars

\* ------------------------------------------- the selector on its own
\* longest asset list the selector is applied to
MaxSelect == 3

SelectInputs == UNION { [1..n -> AssetUniverse] : n \in 0..MaxSelect }

InitSelect ==
  /\ cache = EmptyTree
  /\ resTree = InitResTree
  /\ jniTree = InitJniTree
  /\ args = NoArgs
  /\ pc = "select"
  /\ assets \in SelectInputs
  /\ android_assets = << >>
  /\ dl = 1
  /\ queue = << >>
  /\ cur = NoCur
  /\ member = 1
  /\ stats = ZeroStats
  /\ resource_deployed = FALSE
  /\ exitCode = -1
  /\ runs = 1
  /\ apiResult = "ok"
  /\ requests = << >>
  /\ deployed = << >>
  /\ wrote = {}
  /\ preRes = resTree
  /\ preJni = jniTree
  /\ prevArgs = NoArgs

\* find_android_assets applied to the list, the list kept beside the result
SelectOnly ==
  /\ pc = "select"
  /\ android_assets' = find_android_assets(assets)
  /\ pc' = "selected"
  /\ UNCHANGED << fsVars, args, assets, dl, queue, extractVars, resource_deployed,
                  exitCode, runs, histVars >>

SpecSelect == InitSelect /\ [][SelectOnly]_vars

\* ---------------------------------------------------------------- claims
\* the member the member loop of extract_and_deploy is at
AtMember == pc = "extract" /\ member <= Len(Stored(cache[cur.tarball]).members)
CurMember == Stored(cache[cur.tarball]).members[member]
PrevMember == Stored(cache[cur.tarball]).members[member - 1]

\* a "resource" segment with at least one segment after it
HasAnchorTail(path) == \E i \in 1..(Len(path) - 1) : path[i] = RESOURCE

\* the segments after the first "resource" segment
RECURSIVE AfterAnchor(_)
AfterAnchor(path) ==
  IF Head(path) = RESOURCE THEN Tail(path) ELSE AfterAnchor(Tail(path))

ResourceWritten(m) ==
  /\ AfterAnchor(m.path) \in DOMAIN resTree'
  /\ resTree'[AfterAnchor(m.path)].data = m.data
  /\ stats'.resource = stats.resource + 1

\* C1 as stated: every regular-file member with a "resource" segment followed
\* by at least one more segment is written to the resource root joined with
\* the segments after the first "resource", and counted as a resource file,
\* whatever its file name or extension.
C1_Original ==
  [][AtMember =>
       (CurMember.isfile /\ HasAnchorTail(CurMember.path)
          => ResourceWritten(CurMember))]_vars

\* C1 amended: the same for every such member whose file name does not have
\* an ignored extension (".h"); a header below "resource" is skipped.
C1_ResourceRouting ==
  [][AtMember =>
       ((/\ CurMember.isfile
         /\ HasAnchorTail(CurMember.path)
         /\ Suffix(NameOf(CurMember)) \notin IGNORE_EXTENSIONS)
          => ResourceWritten(CurMember))]_vars

\* the member resource/resource/a.json has just been written to resource/a.json
C1_Witness ==
  /\ pc = "extract"
  /\ member > 1
  /\ PrevMember.path = << RESOURCE, RESOURCE, A_JSON >>
  /\ << RESOURCE, A_JSON >> \in DOMAIN resTree
  /\ resTree[<< RESOURCE, A_JSON >>] = [data |-> << "a" >>, from |-> cur.tarball]
  /\ stats.resource = 1

IsLibrary(m) ==
  m.isfile /\ EndsWith(NameOf(m), ".so") /\ NameOf(m) \notin EXCLUDE_SO

LibraryWritten(m) ==
  /\ NameOf(m) \in DOMAIN jniTree'[cur.abi]
  /\ jniTree'[cur.abi][NameOf(m)].data = m.data
  /\ stats'.so = stats.so + 1
  /\ \A a \in Abis \ { cur.abi } : jniTree'[a] = jniTree[a]

\* C2 as stated: every regular-file member whose file name ends in ".so" and
\* is not excluded is written to <library root>/A/<file name only> and counted
\* as a library file, wherever it sits in the archive.
C2_Original ==
  [][AtMember => (IsLibrary(CurMember) => LibraryWritten(CurMember))]_vars

\* C2 amended: the same for every such member whose path has no segment equal
\* to "resource"; a library below "resource" goes to the resource tree.
C2_LibraryRouting ==
  [][AtMember =>
       (IsLibrary(CurMember) /\ ~Contains(CurMember.path, RESOURCE)
          => LibraryWritten(CurMember))]_vars

\* libfoo/x/libbar.so of the x64 archive has just been written to x86_64/libbar.so
C2_Witness ==
  /\ pc = "extract"
  /\ member > 1
  /\ cur.abi = "x86_64"
  /\ PrevMember.path = << LIBFOO, << "x" >>, LIBBAR_SO >>
  /\ LIBBAR_SO \in DOMAIN jniTree["x86_64"]
  /\ jniTree["x86_64"][LIBBAR_SO] = [data |-> << "barx2" >>, from |-> cur.tarball]
  /\ stats.so = 2

\* C3: in the download loop, for a selected asset of a target architecture:
\* when the cache holds a file of the asset's name and declared size, no
\* download is issued and the cache is unchanged; otherwise the asset is
\* downloaded in full over the cache file, and no other cache file changes.
C3_CacheHit ==
  [][pc = "download" =>
       LET info == android_assets[dl]
       IN info.abi \in Target(args) =>
            IF /\ info.name \in DOMAIN cache
               /\ Stored(cache[info.name]).size = info.size
            THEN cache' = cache /\ requests' = requests
            ELSE /\ requests' = Append(requests, info.name)
                 /\ DOMAIN cache' = DOMAIN cache \cup { info.name }
                 /\ cache'[info.name] = Remote(info.url)
                 /\ \A n \in DOMAIN cache \ { info.name } : cache'[n] = cache[n]]_vars

\* first run on the cache that held MAA-v1-android-arm64.tar.gz with another
\* size: the file was downloaded again and replaced, the other file was kept
C3_Witness ==
  /\ runs = 1
  /\ pc = "deploy"
  /\ requests = << ARM_V1 >>
  /\ DOMAIN cache = { ARM_V1, ARM_V2 }
  /\ cache[ARM_V1] = "TarV1"
  /\ cache[ARM_V2] = "TarV2"

\* libraries that sit in a library directory and that this tool never deploys
ThirdPartyLibs == { LIBJNIDISPATCH } \cup EXCLUDE_SO

\* C4 as stated: the clean pre-step for architecture A deletes every file of
\* A's library directory with the ".so" extension except the protected ones,
\* never removes a protected or co-located third-party library, and leaves the
\* files without that extension and the other architectures' directories alone.
C4_Claim ==
  [][pc = "loop" /\ queue # << >> /\ args.clean =>
       LET A == Head(queue).abi
       IN /\ \A f \in DOMAIN jniTree[A] :
               IF Suffix(f) = ".so" /\ f \notin ThirdPartyLibs
               THEN f \notin DOMAIN jniTree'[A]
               ELSE f \in DOMAIN jniTree'[A] /\ jniTree'[A][f] = jniTree[A][f]
          /\ DOMAIN jniTree'[A] \subseteq DOMAIN jniTree[A]
          /\ \A B \in Abis \ { A } : jniTree'[B] = jniTree[B]]_vars

\* C5: every file of A's library directory was written from an archive whose
\* name holds A's keyword, or was there before the tool ran and is unchanged;
\* and no archive writes into the directory of an architecture whose keyword
\* its name does not hold or that is outside the target set.
C5_Provenance ==
  /\ \A A \in Abis : \A f \in DOMAIN jniTree[A] :
       \/ Contains(jniTree[A][f].from, KeywordOf(A))
       \/ /\ jniTree[A][f].from = PRE
          /\ f \in DOMAIN InitJniTree[A]
          /\ jniTree[A][f] = InitJniTree[A][f]
  /\ \A w \in wrote :
       w.tree \in Abis =>
         Contains(w.tarball, KeywordOf(w.tree)) /\ w.tree \in Target(args)

\* both directories hold a library written from an archive of their own
\* keyword, beside the file that was there before
C5_Witness ==
  /\ pc = "done"
  /\ LIBPLUG_SO \in DOMAIN jniTree["x86_64"]
  /\ jniTree["x86_64"][LIBPLUG_SO].from = BOTH_V1
  /\ LIBBAR_SO \in DOMAIN jniTree["arm64-v8a"]
  /\ jniTree["arm64-v8a"][LIBBAR_SO].from = ARM_V2
  /\ LIBJNIDISPATCH \in DOMAIN jniTree["arm64-v8a"]
  /\ jniTree["arm64-v8a"][LIBJNIDISPATCH].from = PRE

\* the byte contents of a tree
Bytes(tree) == [p \in DOMAIN tree |-> tree[p].data]

\* C6: a run with --skip-download and without --clean that follows a run with
\* the same flags leaves both trees byte-identical to what the first run left.
C6_Idempotent ==
  (/\ pc = "done"
   /\ runs >= 2
   /\ args = prevArgs
   /\ args.skip_download
   /\ ~args.clean)
    => /\ Bytes(resTree) = Bytes(preRes)
       /\ \A A \in Abis : Bytes(jniTree[A]) = Bytes(preJni[A])

\* the second of two such runs has ended, having deployed two archives
C6_Witness ==
  /\ pc = "done"
  /\ runs = 2
  /\ args = prevArgs
  /\ args.skip_download
  /\ ~args.clean
  /\ exitCode = 0
  /\ Len(deployed) >= 2
  /\ wrote # {}

Qualifies(asset, L) ==
  EndsWith(asset.name, ".tar.gz") /\ Contains(asset.name, KeywordOf(L))

\* C7: the mapping holds label L exactly when some asset name ends with
\* ".tar.gz" and holds L's keyword; the entry for L is built from the last such
\* asset of the list; no label appears twice.
C7_Selector ==
  pc = "selected" =>
    /\ \A L \in Abis :
         (\E i \in DOMAIN android_assets : android_assets[i].abi = L)
           <=> (\E j \in DOMAIN assets : Qualifies(assets[j], L))
    /\ \A i \in DOMAIN android_assets :
         LET L == android_assets[i].abi
             J == { j \in DOMAIN assets : Qualifies(assets[j], L) }
             last == CHOOSE j \in J : \A k \in J : k <= j
         IN android_assets[i] =
              [abi |-> L, name |-> assets[last].name,
               url |-> assets[last].browser_download_url,
               size |-> assets[last].size]
    /\ \A i, k \in DOMAIN android_assets :
         i # k => android_assets[i].abi # android_assets[k].abi

\* two archives of one keyword and a .zip of the same keyword after them:
\* the later archive is the one kept
C7_Witness ==
  /\ pc = "selected"
  /\ assets = << Asset(ARM_V1, "u-arm-v1"), Asset(ARM_V2, "u-arm-v2"),
                 Asset(ARM_ZIP, "u-arm-zip") >>
  /\ Len(android_assets) = 1
  /\ android_assets[1].abi = "arm64-v8a"
  /\ android_assets[1].name = ARM_V2

ApiFailed == apiResult = "error"
NoAsset == apiResult = "ok" /\ android_assets = << >>
NoCached ==
  ~\E n \in DOMAIN cache, A \in Target(args) :
      EndsWith(n, ".tar.gz") /\ Contains(n, KeywordOf(A))

\* C8: a run ends with status 1 when the release request failed, when the
\* release held no matching archive, or when, with --skip-download, the cache
\* held no archive of a target architecture; a run that ends with status 1
\* has deployed no archive and stops where the failure is found; a run with
\* none of the three in which an archive was deployed ends with status 0.
C8_ExitStatus ==
  /\ exitCode # -1 => pc = "done"
  /\ pc = "done" =>
       /\ exitCode \in { 0, 1 }
       /\ ApiFailed \/ NoAsset => exitCode = 1
       /\ args.skip_download /\ NoCached => exitCode = 1
       /\ exitCode = 1 => deployed = << >> /\ wrote = {}
       /\ (/\ ~ApiFailed
           /\ ~NoAsset
           /\ ~(args.skip_download /\ NoCached)
           /\ deployed # << >>) => exitCode = 0

\* --skip-download --abi x86_64 on a cache that holds only arm64 archives
C8_Witness ==
  /\ pc = "done"
  /\ exitCode = 1
  /\ args.skip_download
  /\ args.abi = "x86_64"
  /\ DOMAIN cache = { ARM_V1, ARM_V2 }

\* the pairs the deploy phase has to visit
MatchingPairs ==
  { pr \in [tarball : DOMAIN cache, abi : Target(args)] :
      EndsWith(pr.tarball, ".tar.gz") /\ Contains(pr.tarball, KeywordOf(pr.abi)) }

FileAt(w) ==
  IF w.tree = "resource" THEN resTree[w.path] ELSE jniTree[w.tree][w.path[1]]

ExistsAt(w) ==
  IF w.tree = "resource"
  THEN w.path \in DOMAIN resTree
  ELSE w.path[1] \in DOMAIN jniTree[w.tree]

Writers(w) == { v \in wrote : v.tree = w.tree /\ v.path = w.path }

\* the writer of w's destination that is latest in file-name order
LastWriter(w) ==
  CHOOSE v \in Writers(w) : \A u \in Writers(w) : NameLeq(u.tarball, v.tarball)

\* the deploy phase visits exactly the cached "*.tar.gz" files whose name
\* holds the keyword of a target architecture, in ascending file-name order
VisitsInOrder ==
  /\ { deployed[i] : i \in DOMAIN deployed } = MatchingPairs
  /\ Len(deployed) = Cardinality(MatchingPairs)
  /\ \A i, j \in DOMAIN deployed :
       i < j => NameLeq(deployed[i].tarball, deployed[j].tarball)

DeployRan == pc = "done" /\ ~ApiFailed /\ ~NoAsset

\* C9 as stated: the deploy phase visits those files in that order, and every
\* destination written by more than one cached archive holds, after the run,
\* the content of the archive latest in file-name order (--clean or not).
C9_Original ==
  DeployRan =>
    /\ VisitsInOrder
    /\ \A w \in wrote :
         Cardinality({ v.tarball : v \in Writers(w) }) > 1 =>
           ExistsAt(w) /\ FileAt(w).from = LastWriter(w).tarball

\* C9 amended: the deploy phase visits those files in that order; every
\* destination written in the run that exists after it holds the content of
\* the latest archive that wrote it; every written resource path exists after
\* the run and, without --clean, every written library path does; with --clean
\* every library of a directory other than libjnidispatch.so comes from the
\* last archive deployed to that directory, so a library the last archive
\* does not hold is gone however many earlier archives wrote it.
C9_DeployOrder ==
  DeployRan =>
    /\ VisitsInOrder
    /\ \A w \in wrote :
         /\ ExistsAt(w) => FileAt(w).from = LastWriter(w).tarball
         /\ w.tree = "resource" \/ ~args.clean => ExistsAt(w)
    /\ args.clean =>
         \A A \in Abis :
           LET D == { i \in DOMAIN deployed : deployed[i].abi = A }
           IN D # {} =>
                \A f \in DOMAIN jniTree[A] :
                  Suffix(f) = ".so" /\ f # LIBJNIDISPATCH =>
                    jniTree[A][f].from =
                      deployed[CHOOSE i \in D : \A k \in D : k <= i].tarball

\* with --clean, v1 and v2 were deployed to arm64-v8a, v2 not downloaded in
\* this run: libbar.so, written by both, is v2's; libplug.so, written by v1
\* only, is gone
C9_Witness ==
  /\ pc = "done"
  /\ args.clean
  /\ requests = << ARM_V1 >>
  /\ [tree |-> "arm64-v8a", path |-> << LIBBAR_SO >>, tarball |-> ARM_V1] \in wrote
  /\ [tree |-> "arm64-v8a", path |-> << LIBBAR_SO >>, tarball |-> ARM_V2] \in wrote
  /\ [tree |-> "arm64-v8a", path |-> << LIBPLUG_SO >>, tarball |-> ARM_V1] \in wrote
  /\ LIBPLUG_SO \notin DOMAIN jniTree["arm64-v8a"]
  /\ jniTree["arm64-v8a"][LIBBAR_SO].data = << "bar2" >>

FailedRun == pc = "done" /\ exitCode = 1

\* C10 as stated: for every flag combination, --clean included, a run that
\* ends with status 1 leaves both trees as they were before the run.
C10_Original == FailedRun => resTree = preRes /\ jniTree = preJni

\* C10 amended: such a run leaves the library tree as it was; it leaves the
\* resource tree as it was without --clean, and empty with --clean.
C10_FailedRunTrees ==
  FailedRun =>
    /\ jniTree = preJni
    /\ ~args.clean => resTree = preRes
    /\ args.clean => resTree = EmptyTree

\* a failed run with --clean has removed the resource files that were there
C10_Witness ==
  /\ FailedRun
  /\ args.clean
  /\ preRes = InitResTree
  /\ resTree = EmptyTree

====
